---- MODULE Spec2Model ----
(***************************************************************************)
(* The ledger engine of fardinabir/digital-wallet-demo: the wallet service *)
(* (Deposit, Withdraw, Transfer) over the wallet repository, run by        *)
(* concurrent request goroutines against one PostgreSQL store.             *)
(*                                                                         *)
(* Every call the service makes to the repository is one atomic step of    *)
(* the calling process.  Rows written inside a database transaction stay   *)
(* private to it (txRows, txLog) until Commit publishes them; a row read   *)
(* with SELECT ... FOR UPDATE stays locked by the transaction until it     *)
(* commits or rolls back.  Amounts and balances are in cents.              *)
(***************************************************************************)
EXTENDS Integers, Sequences, FiniteSets, TLC

\* Number of concurrent request goroutines.
NumProcs == 3

\* Number of engine calls in one behaviour of the general specification.
MaxCalls == 2

Procs == 1..NumProcs

----------------------------------------------------------------------------
\* model/wallet.go: enumerations and errors

User == "user"
Provider == "provider"
Debit == "debit"
Credit == "credit"
DepositType == "deposit"
WithdrawType == "withdraw"
TransferType == "transfer"
Pending == "pending"
Completed == "completed"

OK == "ok"
ErrInvalidAmount == "invalid amount"
ErrNotFound == "record not found"
ErrInsufficientFunds == "insufficient funds"
ErrDepositProvider == "deposit provider wallet not found"
ErrWithdrawProvider == "withdraw provider wallet not found"
ErrStorage == "storage error"
ErrDuplicateKey == "duplicate key value violates unique constraint"

\* A nil *string (no provider id passed), a nil *model.Wallet, a nil
\* *model.Transaction.
Nil == "nil"
NoWallet == [id |-> 0, user_id |-> Nil, acnt_type |-> Nil, balance |-> 0, status |-> Nil]
NoTxn == [subject_wallet_id |-> Nil, object_wallet_id |-> Nil,
          transaction_type |-> Nil, operation_type |-> Nil, amount |-> 0, status |-> Nil]

DefaultDepositProvider == "deposit-provider-master"
DefaultWithdrawProvider == "withdraw-provider-master"

----------------------------------------------------------------------------
\* migrations/dml/001_insert_provider_wallets.sql: the seeded store

\* The seed gives the deposit provider 999999999999 cents, more than TLC's
\* 32-bit integers hold; the model seeds it with a balance that is, like the
\* seed's, larger than any sum of amounts a behaviour moves.
DepositProviderSeed == 2000000000

WalletRow(id, uid, type, bal, st) ==
    [id |-> id, user_id |-> uid, acnt_type |-> type, balance |-> bal, status |-> st]

\* wallets.id is SERIAL: the rows get ids 1, 2, ... in insertion order.
SeedWallets ==
    << WalletRow(1, "deposit-provider-master", Provider, DepositProviderSeed, "active"),
       WalletRow(2, "withdraw-provider-master", Provider, 0, "active"),
       WalletRow(3, "user-001", User, 10000, "active"),
       WalletRow(4, "user-002", User, 5000, "active"),
       WalletRow(5, "user-003", User, 25000, "active"),
       WalletRow(6, "user-004", User, 0, "active"),
       WalletRow(7, "user-inactive", User, 1000, "inactive") >>

\* A row of table transactions.  The model leaves out its id and timestamps:
\* log keeps the committed rows in the order they were committed.
Txn(subj, obj, ttype, otype, amt, st) ==
    [subject_wallet_id |-> subj, object_wallet_id |-> obj,
     transaction_type |-> ttype, operation_type |-> otype, amount |-> amt, status |-> st]

SeedLog ==
    << Txn("deposit-provider-master", "user-001", DepositType, Debit, 5000, Completed),
       Txn("user-001", "deposit-provider-master", DepositType, Credit, 5000, Completed),
       Txn("user-002", "withdraw-provider-master", WithdrawType, Debit, 1000, Completed),
       Txn("withdraw-provider-master", "user-002", WithdrawType, Credit, 1000, Completed),
       Txn("user-001", "user-003", TransferType, Debit, 2000, Completed),
       Txn("user-003", "user-001", TransferType, Credit, 2000, Completed),
       Txn("deposit-provider-master", "user-002", DepositType, Debit, 3000, Pending),
       Txn("user-002", "deposit-provider-master", DepositType, Credit, 3000, Pending),
       Txn("user-001", "user-003", TransferType, Debit, 2000, Completed),
       Txn("user-003", "user-001", TransferType, Credit, 2000, Completed) >>

\* created_at of the seeded entries, in hours from the time of the
\* migration: NOW() less 2 days, 1 day, 12 hours, 1 hour and 6 hours.
SeedStamps == << -48, -48, -24, -24, -12, -12, -1, -1, -6, -6 >>

----------------------------------------------------------------------------
VARIABLES
    wallets,    \* the committed rows of table wallets, by id
    log,        \* the committed rows of table transactions, in commit order
    pc,         \* per process: the repository call it makes next
    call,       \* per process: the operation it runs and its arguments
    w1,         \* per process: userWallet / fromWallet, as read by the first lookup
    w2,         \* per process: providerWallet / toWallet, as read by the second lookup
    txLog,      \* per process: the entries inserted in its open transaction
    txRows,     \* per process: the rows it holds locked, in lock order, with
                \* the balance its transaction wrote
    res,        \* per process: what its last call returned (entry, error)
    dirty,      \* per process: some step of its current call changed wallets or log
    last,       \* per process: the repository call its current call made last
    calls,      \* number of engine calls made so far
    clock,      \* the time (now), the created_at of the committed entries (log,
                \* row by row as in variable log) and of the entries of each
                \* open transaction (tx)
    view,       \* the GetWalletWithTransactions request: its position and
                \* what it has read and returned
    created,    \* the last Create request: the user id asked for, the error
                \* and the wallet returned
    crud        \* the CRUD wallet service: its records by id, the Update call
                \* in progress, the number of calls made and the last result

vars == <<wallets, log, pc, call, w1, w2, txLog, txRows, res, dirty, last, calls,
          clock, view, created, crud>>

NoCall == [op |-> Nil, a |-> Nil, b |-> Nil, amount |-> 0]
NoRes == [err |-> Nil, txn |-> NoTxn]

\* No read request: nothing asked, nothing returned.  txns lists the
\* returned entries by their row in variable log.
NoView == [pc |-> "idle", userID |-> Nil, err |-> Nil, wallet |-> NoWallet, txns |-> << >>]

\* No Create request made yet.
NoCreated == [userID |-> Nil, err |-> Nil, wallet |-> NoWallet]

\* The records of the CRUD wallet service have an id, a task, a priority
\* and a status; NoRecord stands for no row of that id.
Record(task, priority, status) == [task |-> task, priority |-> priority, status |-> status]
NoRecord == Record(Nil, 0, Nil)

\* Bounds of the CRUD store: the ids in use and the calls made.
MaxID == 2
MaxOps == 3

\* The empty CRUD store, no call made: rows by id, the next serial id, the
\* position of the Update call in progress with the id and the record it
\* is about to save, the number of calls made and the last result.
NoCrud ==
    [rows |-> [i \in 1..MaxID |-> NoRecord], nextID |-> 1,
     pc |-> "idle", id |-> 0, wallet |-> NoRecord,
     n |-> 0, res |-> [op |-> Nil, id |-> 0, err |-> Nil]]

Idle ==
    /\ pc = [p \in Procs |-> "idle"]
    /\ call = [p \in Procs |-> NoCall]
    /\ w1 = [p \in Procs |-> NoWallet]
    /\ w2 = [p \in Procs |-> NoWallet]
    /\ txLog = [p \in Procs |-> << >>]
    /\ txRows = [p \in Procs |-> << >>]
    /\ res = [p \in Procs |-> NoRes]
    /\ dirty = [p \in Procs |-> FALSE]
    /\ last = [p \in Procs |-> "none"]
    /\ calls = 0
    /\ clock = [now |-> 0,
                log |-> [i \in 1..Len(log) |->
                            IF i <= Len(SeedStamps) THEN SeedStamps[i] ELSE 0],
                tx |-> [p \in Procs |-> << >>]]
    /\ view = NoView
    /\ created = NoCreated
    /\ crud = NoCrud

\* The store as the migrations leave it, and no request running.
Init ==
    /\ wallets = SeedWallets
    /\ log = SeedLog
    /\ Idle

----------------------------------------------------------------------------
\* repository/wallet.go

\* A lookup that falls back on the first row when no row has that user_id.
FindByUserIDOrFirst(userID) ==
    IF \E i \in DOMAIN wallets : wallets[i].user_id = userID
    THEN [err |-> OK, wallet |-> wallets[CHOOSE i \in DOMAIN wallets : wallets[i].user_id = userID]]
    ELSE [err |-> OK, wallet |-> wallets[1]]

\* FindByUserID: the row with that user_id, or ErrNotFound.
FindByUserID(userID) ==
    IF \E i \in DOMAIN wallets : wallets[i].user_id = userID
    THEN [err |-> OK, wallet |-> wallets[CHOOSE i \in DOMAIN wallets : wallets[i].user_id = userID]]
    ELSE [err |-> ErrNotFound, wallet |-> NoWallet]

\* A provider lookup that finds active provider wallets only.
FindProviderWalletActive(providerID) ==
    IF \E i \in DOMAIN wallets :
          /\ wallets[i].user_id = providerID
          /\ wallets[i].acnt_type = Provider
          /\ wallets[i].status = "active"
    THEN [err |-> OK, wallet |-> wallets[CHOOSE i \in DOMAIN wallets : wallets[i].user_id = providerID]]
    ELSE [err |-> ErrNotFound, wallet |-> NoWallet]

\* FindProviderWallet: the row with that user_id and acnt_type provider.
FindProviderWallet(providerID) ==
    IF \E i \in DOMAIN wallets :
           wallets[i].user_id = providerID /\ wallets[i].acnt_type = Provider
    THEN [err |-> OK,
          wallet |-> wallets[CHOOSE i \in DOMAIN wallets :
                                 wallets[i].user_id = providerID /\ wallets[i].acnt_type = Provider]]
    ELSE [err |-> ErrNotFound, wallet |-> NoWallet]

\* UpdateWalletBalance without its check of a debit against the balance.
NewBalanceUnchecked(balance, amount, isCredit) ==
    [err |-> OK, balance |-> IF isCredit THEN balance + amount ELSE balance - amount]

\* UpdateWalletBalance taking every update for a debit.
NewBalanceDebitOnly(balance, amount, isCredit) ==
    IF balance - amount < 0
    THEN [err |-> ErrInsufficientFunds, balance |-> balance]
    ELSE [err |-> OK, balance |-> balance - amount]

\* The arithmetic of UpdateWalletBalance on the balance read under the lock.
NewBalance(balance, amount, isCredit) ==
    IF isCredit
    THEN [err |-> OK, balance |-> balance + amount]
    ELSE IF balance - amount < 0
         THEN [err |-> ErrInsufficientFunds, balance |-> balance]
         ELSE [err |-> OK, balance |-> balance - amount]

\* The wallet ids process p holds the row lock of.
Locked(p) == {txRows[p][k].id : k \in DOMAIN txRows[p]}

\* A read of the row without the FOR UPDATE clause: it never waits.
CanLockAlways(p, id) == TRUE

\* A lock on the whole table in place of the row lock.
CanLockTable(p, id) == \A q \in Procs \ {p} : Locked(q) = {}

\* SELECT ... FOR UPDATE on row id returns to p only while no other open
\* transaction holds the row's lock.
CanLock(p, id) == \A q \in Procs \ {p} : id \notin Locked(q)

\* What the locking read of row id returns to p: its own transaction's
\* version of the row if it wrote one, the committed row otherwise.
RowBalance(p, id) ==
    IF id \in Locked(p)
    THEN txRows[p][CHOOSE k \in DOMAIN txRows[p] : txRows[p][k].id = id].balance
    ELSE wallets[id].balance

\* tx.Save(&wallet): the row version in p's transaction.
SaveRow(p, id, balance) ==
    IF id \in Locked(p)
    THEN [k \in DOMAIN txRows[p] |->
             IF txRows[p][k].id = id THEN [id |-> id, balance |-> balance] ELSE txRows[p][k]]
    ELSE Append(txRows[p], [id |-> id, balance |-> balance])

\* A commit that publishes only the first row the transaction wrote.
CommittedWalletsFirst(p) ==
    [i \in DOMAIN wallets |->
        IF txRows[p] # << >> /\ txRows[p][1].id = i
        THEN [wallets[i] EXCEPT !.balance = txRows[p][1].balance] ELSE wallets[i]]

\* tx.Commit(): the rows of the transaction become the committed rows.
CommittedWallets(p) ==
    [i \in DOMAIN wallets |->
        IF i \in Locked(p) THEN [wallets[i] EXCEPT !.balance = RowBalance(p, i)] ELSE wallets[i]]

----------------------------------------------------------------------------
\* service/wallet.go: the entries and the lock order of each operation

\* An amount check that lets 0 through.
ValidAmountNonNegative(amount) == amount >= 0

ValidAmount(amount) == amount > 0

\* A credit entry built without its Status, which the column's default
\* makes pending.
DepositCreditTxnPending(p) ==
    Txn(w1[p].user_id, w2[p].user_id, DepositType, Credit, call[p].amount, Pending)

\* Deposit: debit the provider, credit the user; the provider row is
\* updated (and locked) first; the credit entry is returned.
DepositDebitTxn(p) ==
    Txn(w2[p].user_id, w1[p].user_id, DepositType, Debit, call[p].amount, Completed)
DepositCreditTxn(p) ==
    Txn(w1[p].user_id, w2[p].user_id, DepositType, Credit, call[p].amount, Completed)

\* Withdraw: debit the user, credit the provider; the user row is updated
\* first; the debit entry is returned.
WithdrawDebitTxn(p) ==
    Txn(w1[p].user_id, w2[p].user_id, WithdrawType, Debit, call[p].amount, Completed)
WithdrawCreditTxn(p) ==
    Txn(w2[p].user_id, w1[p].user_id, WithdrawType, Credit, call[p].amount, Completed)

\* Transfer: debit the sender, credit the receiver; the sender row is
\* updated first; the debit entry is returned.
TransferDebitTxn(p) ==
    Txn(w1[p].user_id, w2[p].user_id, TransferType, Debit, call[p].amount, Completed)
\* A credit entry built with the debit entry's subject and object.
TransferCreditTxnUnswapped(p) ==
    Txn(w1[p].user_id, w2[p].user_id, TransferType, Credit, call[p].amount, Completed)
TransferCreditTxn(p) ==
    Txn(w2[p].user_id, w1[p].user_id, TransferType, Credit, call[p].amount, Completed)

DebitTxn(p) ==
    CASE call[p].op = DepositType -> DepositDebitTxn(p)
      [] call[p].op = WithdrawType -> WithdrawDebitTxn(p)
      [] OTHER -> TransferDebitTxn(p)

CreditTxn(p) ==
    CASE call[p].op = DepositType -> DepositCreditTxn(p)
      [] call[p].op = WithdrawType -> WithdrawCreditTxn(p)
      [] OTHER -> TransferCreditTxn(p)

\* The wallet id of the first UpdateWalletBalance call (isCredit false).
DebitWallet(p) == IF call[p].op = DepositType THEN w2[p].id ELSE w1[p].id

\* A second UpdateWalletBalance call that names the first call's wallet.
CreditWalletSame(p) == IF call[p].op = DepositType THEN w2[p].id ELSE w1[p].id

\* The wallet id of the second UpdateWalletBalance call (isCredit true).
CreditWallet(p) == IF call[p].op = DepositType THEN w1[p].id ELSE w2[p].id

\* Every operation returning its second entry.
ReturnedCredit(p) == txLog[p][2]

\* The entry a successful call returns.
Returned(p) == IF call[p].op = DepositType THEN txLog[p][2] ELSE txLog[p][1]

\* One provider wallet shared by deposits and withdrawals.
ProviderIDShared(p) == DefaultDepositProvider

\* A provider lookup that always takes the operation's default provider.
ProviderIDDefaultOnly(p) ==
    IF call[p].op = DepositType THEN DefaultDepositProvider ELSE DefaultWithdrawProvider

\* The provider id the second lookup of Deposit / Withdraw uses.
ProviderID(p) ==
    IF call[p].b # Nil THEN call[p].b
    ELSE IF call[p].op = DepositType THEN DefaultDepositProvider ELSE DefaultWithdrawProvider

\* Deposit and Withdraw replace whatever error the provider lookup returned.
ProviderError(p) ==
    IF call[p].op = DepositType THEN ErrDepositProvider ELSE ErrWithdrawProvider

----------------------------------------------------------------------------
\* Bookkeeping shared by the steps

\* created_at (autoCreateTime): an entry gets the time of its insert, keeps
\* it when its transaction commits, and goes with a rolled-back transaction.
Stamped(p) ==
    [now |-> clock.now,
     log |-> IF log' # log THEN clock.log \o clock.tx[p] ELSE clock.log,
     tx |-> [clock.tx EXCEPT ![p] =
                IF pc'[p] = "done" THEN << >>
                ELSE IF Len(txLog'[p]) > Len(txLog[p]) THEN Append(@, clock.now)
                ELSE @]]

\* A repository call of p's current operation: note it, and note whether
\* the step changed the committed store.
Touch(p) ==
    /\ last' = [last EXCEPT ![p] = pc[p]]
    /\ dirty' = [dirty EXCEPT ![p] = @ \/ wallets' # wallets \/ log' # log]
    /\ clock' = Stamped(p)
    /\ UNCHANGED <<view, created, crud>>

\* An error path that commits the open transaction instead of rolling it back.
FailCommitted(p, err) ==
    /\ pc' = [pc EXCEPT ![p] = "done"]
    /\ res' = [res EXCEPT ![p] = [err |-> err, txn |-> NoTxn]]
    /\ w1' = [w1 EXCEPT ![p] = NoWallet]
    /\ w2' = [w2 EXCEPT ![p] = NoWallet]
    /\ txLog' = [txLog EXCEPT ![p] = << >>]
    /\ txRows' = [txRows EXCEPT ![p] = << >>]
    /\ wallets' = [i \in DOMAIN wallets |->
                     IF \E k \in DOMAIN txRows[p] : txRows[p][k].id = i
                     THEN [wallets[i] EXCEPT !.balance =
                              txRows[p][CHOOSE k \in DOMAIN txRows[p] : txRows[p][k].id = i].balance]
                     ELSE wallets[i]]
    /\ log' = log \o txLog[p]

\* An error path that undoes the operation by deleting as many rows from
\* the end of the log as it had inserted.
FailCompensating(p, err) ==
    /\ pc' = [pc EXCEPT ![p] = "done"]
    /\ res' = [res EXCEPT ![p] = [err |-> err, txn |-> NoTxn]]
    /\ w1' = [w1 EXCEPT ![p] = NoWallet]
    /\ w2' = [w2 EXCEPT ![p] = NoWallet]
    /\ txLog' = [txLog EXCEPT ![p] = << >>]
    /\ txRows' = [txRows EXCEPT ![p] = << >>]
    /\ log' = SubSeq(log, 1, Len(log) - Len(txLog[p]))
    /\ UNCHANGED wallets

\* return nil, err; an open transaction is rolled back (its rows and entries
\* are dropped, its locks released).
Fail(p, err) ==
    /\ pc' = [pc EXCEPT ![p] = "done"]
    /\ res' = [res EXCEPT ![p] = [err |-> err, txn |-> NoTxn]]
    /\ w1' = [w1 EXCEPT ![p] = NoWallet]
    /\ w2' = [w2 EXCEPT ![p] = NoWallet]
    /\ txLog' = [txLog EXCEPT ![p] = << >>]
    /\ txRows' = [txRows EXCEPT ![p] = << >>]
    /\ UNCHANGED <<wallets, log>>

Goto(p, next) ==
    /\ pc' = [pc EXCEPT ![p] = next]
    /\ UNCHANGED res

----------------------------------------------------------------------------
\* The steps of Deposit, Withdraw and Transfer

\* The call and its amount validation, which touches no storage.
Invoke(p, c) ==
    /\ pc[p] \in {"idle", "done"}
    /\ call' = [call EXCEPT ![p] = c]
    /\ calls' = calls + 1
    /\ dirty' = [dirty EXCEPT ![p] = FALSE]
    /\ last' = [last EXCEPT ![p] = "none"]
    /\ UNCHANGED <<clock, view, created, crud>>
    /\ IF ValidAmount(c.amount)
       THEN /\ pc' = [pc EXCEPT ![p] = "find1"]
            /\ res' = [res EXCEPT ![p] = NoRes]
            /\ UNCHANGED <<wallets, log, w1, w2, txLog, txRows>>
       ELSE Fail(p, ErrInvalidAmount)

\* A first lookup without the balance check that follows it.
FindFirstUnchecked(p) ==
    /\ pc[p] = "find1"
    /\ LET r == FindByUserID(call[p].a) IN
         IF r.err # OK THEN Fail(p, r.err)
         ELSE /\ w1' = [w1 EXCEPT ![p] = r.wallet]
              /\ Goto(p, "find2")
              /\ UNCHANGED <<wallets, log, w2, txLog, txRows>>
    /\ Touch(p)
    /\ UNCHANGED <<call, calls>>

\* FindByUserID(userID / fromUserID), then the balance check of Withdraw and
\* Transfer on the row just read.
FindFirst(p) ==
    /\ pc[p] = "find1"
    /\ LET r == FindByUserID(call[p].a) IN
         IF r.err # OK THEN Fail(p, r.err)
         ELSE IF call[p].op # DepositType /\ r.wallet.balance < call[p].amount
              THEN Fail(p, ErrInsufficientFunds)
              ELSE /\ w1' = [w1 EXCEPT ![p] = r.wallet]
                   /\ Goto(p, "find2")
                   /\ UNCHANGED <<wallets, log, w2, txLog, txRows>>
    /\ Touch(p)
    /\ UNCHANGED <<call, calls>>

\* FindProviderWallet(*providerID) in Deposit and Withdraw,
\* FindByUserID(toUserID) in Transfer.
FindSecond(p) ==
    /\ pc[p] = "find2"
    /\ LET r == IF call[p].op = TransferType
                THEN FindByUserID(call[p].b)
                ELSE FindProviderWallet(ProviderID(p)) IN
         IF r.err # OK
         THEN Fail(p, IF call[p].op = TransferType THEN r.err ELSE ProviderError(p))
         ELSE /\ w2' = [w2 EXCEPT ![p] = r.wallet]
              /\ Goto(p, "begin")
              /\ UNCHANGED <<wallets, log, w1, txLog, txRows>>
    /\ Touch(p)
    /\ UNCHANGED <<call, calls>>

\* BeginTransaction.
Begin(p) ==
    /\ pc[p] = "begin"
    /\ Goto(p, "insert1")
    /\ UNCHANGED <<wallets, log, w1, w2, txLog, txRows>>
    /\ Touch(p)
    /\ UNCHANGED <<call, calls>>

\* InsertTransaction(tx, debitTxn).
InsertDebit(p) ==
    /\ pc[p] = "insert1"
    /\ txLog' = [txLog EXCEPT ![p] = Append(@, DebitTxn(p))]
    /\ Goto(p, "insert2")
    /\ UNCHANGED <<wallets, log, w1, w2, txRows>>
    /\ Touch(p)
    /\ UNCHANGED <<call, calls>>

\* InsertTransaction(tx, creditTxn).
InsertCredit(p) ==
    /\ pc[p] = "insert2"
    /\ txLog' = [txLog EXCEPT ![p] = Append(@, CreditTxn(p))]
    /\ Goto(p, "update1")
    /\ UNCHANGED <<wallets, log, w1, w2, txRows>>
    /\ Touch(p)
    /\ UNCHANGED <<call, calls>>

\* UpdateWalletBalance(tx, walletID, amount, isCredit): lock the row, read
\* it, compute, save; on ErrInsufficientFunds the service rolls back.
UpdateWalletBalance(p, walletID, isCredit, next) ==
    /\ CanLock(p, walletID)
    /\ LET r == NewBalance(RowBalance(p, walletID), call[p].amount, isCredit) IN
         IF r.err # OK THEN Fail(p, r.err)
         ELSE /\ txRows' = [txRows EXCEPT ![p] = SaveRow(p, walletID, r.balance)]
              /\ Goto(p, next)
              /\ UNCHANGED <<wallets, log, w1, w2, txLog>>
    /\ Touch(p)
    /\ UNCHANGED <<call, calls>>

UpdateDebit(p) ==
    /\ pc[p] = "update1"
    /\ UpdateWalletBalance(p, DebitWallet(p), FALSE, "update2")

UpdateCredit(p) ==
    /\ pc[p] = "update2"
    /\ UpdateWalletBalance(p, CreditWallet(p), TRUE, "commit")

\* A commit that takes a call for a replay when the engine has already
\* added the same debit entry, and then returns without adding anything.
CommitDeduplicating(p) ==
    /\ pc[p] = "commit"
    /\ IF \E i \in DOMAIN log : i > Len(SeedLog) /\ log[i] = txLog[p][1]
       THEN UNCHANGED <<wallets, log>>
       ELSE /\ wallets' = CommittedWallets(p)
            /\ log' = log \o txLog[p]
    /\ pc' = [pc EXCEPT ![p] = "done"]
    /\ res' = [res EXCEPT ![p] = [err |-> OK, txn |-> Returned(p)]]
    /\ w1' = [w1 EXCEPT ![p] = NoWallet]
    /\ w2' = [w2 EXCEPT ![p] = NoWallet]
    /\ txLog' = [txLog EXCEPT ![p] = << >>]
    /\ txRows' = [txRows EXCEPT ![p] = << >>]
    /\ Touch(p)
    /\ UNCHANGED <<call, calls>>

\* tx.Commit(), and the return of the operation's entry.
Commit(p) ==
    /\ pc[p] = "commit"
    /\ wallets' = CommittedWallets(p)
    /\ log' = log \o txLog[p]
    /\ pc' = [pc EXCEPT ![p] = "done"]
    /\ res' = [res EXCEPT ![p] = [err |-> OK, txn |-> Returned(p)]]
    /\ w1' = [w1 EXCEPT ![p] = NoWallet]
    /\ w2' = [w2 EXCEPT ![p] = NoWallet]
    /\ txLog' = [txLog EXCEPT ![p] = << >>]
    /\ txRows' = [txRows EXCEPT ![p] = << >>]
    /\ Touch(p)
    /\ UNCHANGED <<call, calls>>

\* The error the service returns when the repository call at pc[p] fails.
StorageErrorAt(p) ==
    IF pc[p] = "find2" /\ call[p].op # TransferType THEN ProviderError(p) ELSE ErrStorage

\* Any repository call may return a storage error (connectivity, lock
\* timeout, a failed commit): the service rolls back and returns it.
StorageError(p) ==
    /\ pc[p] \in {"find1", "find2", "begin", "insert1", "insert2", "update1", "update2", "commit"}
    /\ Fail(p, StorageErrorAt(p))
    /\ Touch(p)
    /\ UNCHANGED <<call, calls>>

\* The row p's pending UpdateWalletBalance call has to lock.
Wanted(p) == IF pc[p] = "update1" THEN DebitWallet(p) ELSE CreditWallet(p)

\* p is blocked in its locking read on a row q holds.
WaitsFor(p, q) ==
    /\ pc[p] \in {"update1", "update2"}
    /\ q # p
    /\ Wanted(p) \in Locked(q)

RECURSIVE WaitClosure(_, _)
WaitClosure(S, n) ==
    IF n = 0 THEN S
    ELSE WaitClosure(S \cup {q \in Procs : \E r \in S : WaitsFor(r, q)}, n - 1)

\* A store without deadlock detection.
InDeadlockUndetected(p) == FALSE

\* p is part of a cycle of transactions each waiting for the next one's lock.
InDeadlock(p) == \E q \in Procs : WaitsFor(p, q) /\ p \in WaitClosure({q}, NumProcs)

\* PostgreSQL's deadlock detector ends a circular wait by failing the
\* locking read of one transaction of the cycle.
DeadlockAbort(p) ==
    /\ InDeadlock(p)
    /\ Fail(p, ErrStorage)
    /\ Touch(p)
    /\ UNCHANGED <<call, calls>>

\* The steps of a running operation.
Run(p) ==
    \/ FindFirst(p)
    \/ FindSecond(p)
    \/ Begin(p)
    \/ InsertDebit(p)
    \/ InsertCredit(p)
    \/ UpdateDebit(p)
    \/ UpdateCredit(p)
    \/ Commit(p)

\* Request goroutines are interchangeable: a new call runs on the first
\* goroutine that is free.
FirstFree(p) ==
    /\ pc[p] \in {"idle", "done"}
    /\ \A q \in Procs : q < p => pc[q] \notin {"idle", "done"}

----------------------------------------------------------------------------
\* The general specification: calls of all three operations in any order
\* and interleaving, with storage errors and deadlock aborts.

Req(op, a, b, amount) == [op |-> op, a |-> a, b |-> b, amount |-> amount]

Requests ==
    { Req(DepositType, "user-002", Nil, 3000),
      Req(DepositType, "user-002", "withdraw-provider-master", 3000),
      Req(DepositType, "user-002", "user-001", 3000),
      Req(DepositType, "user-404", Nil, 0),
      Req(WithdrawType, "user-002", Nil, 3000),
      Req(WithdrawType, "user-002", "deposit-provider-master", 3000),
      Req(WithdrawType, "user-404", Nil, 3000),
      Req(WithdrawType, "user-404", "user-404", -3000),
      Req(TransferType, "user-002", "user-004", 3000),
      Req(TransferType, "user-004", "user-002", 3000),
      Req(TransferType, "user-002", "user-002", 3000),
      Req(TransferType, "user-002", "user-404", 3000),
      Req(TransferType, "user-404", "user-002", 0) }

Request(p) ==
    /\ calls < MaxCalls
    /\ FirstFree(p)
    /\ \E c \in Requests : Invoke(p, c)

Next ==
    \E p \in Procs :
        \/ Request(p)
        \/ Run(p)
        \/ StorageError(p)
        \/ DeadlockAbort(p)

Spec == Init /\ [][Next]_vars

----------------------------------------------------------------------------
\* Concurrent withdrawals: every goroutine makes one Withdraw call, all of
\* the same amount on the same wallet with the default provider; no storage
\* errors.

WithdrawRequests ==
    [op : {WithdrawType}, a : {"user-002", "user-004"}, b : {Nil},
     amount : {1000, 2000, 5000, 6000}]

RequestW(p) ==
    /\ pc[p] = "idle"
    /\ \E c \in WithdrawRequests :
          /\ \A q \in Procs : pc[q] # "idle" => call[q] = c
          /\ Invoke(p, c)

NextW == \E p \in Procs : RequestW(p) \/ Run(p)

SpecW == Init /\ [][NextW]_vars

----------------------------------------------------------------------------
\* Opposite transfers: goroutine 1 runs Transfer(A, B, x) and goroutine 2
\* runs Transfer(B, A, y), once each, A being user-001 and B user-002; no
\* storage errors other than the deadlock detector's.

WalletA == "user-001"
WalletB == "user-002"

\* The store after a committed Withdraw(uid, amount, nil) and nothing else
\* running: what Withdraw's entries and its two balance updates leave.
AfterWithdraw(S, uid, amount) ==
    [wallets |->
        [i \in DOMAIN S.wallets |->
            IF S.wallets[i].user_id = uid
            THEN [S.wallets[i] EXCEPT !.balance = @ - amount]
            ELSE IF S.wallets[i].user_id = DefaultWithdrawProvider
                 THEN [S.wallets[i] EXCEPT !.balance = @ + amount]
                 ELSE S.wallets[i]],
     log |-> S.log \o
        << Txn(uid, DefaultWithdrawProvider, WithdrawType, Debit, amount, Completed),
           Txn(DefaultWithdrawProvider, uid, WithdrawType, Credit, amount, Completed) >>]

ScenarioBalances == {500, 1000}
TransferAmounts == {500, 1000}

\* The seeded store after A and B were drawn down, by one withdrawal each,
\* to a balance of ScenarioBalances.
InitT ==
    /\ \E balA \in ScenarioBalances, balB \in ScenarioBalances :
         LET S0 == [wallets |-> SeedWallets, log |-> SeedLog]
             S1 == AfterWithdraw(S0, WalletA, SeedWallets[3].balance - balA)
             S2 == AfterWithdraw(S1, WalletB, SeedWallets[4].balance - balB) IN
           /\ wallets = S2.wallets
           /\ log = S2.log
    /\ Idle

RequestT(p) ==
    /\ pc[p] = "idle"
    /\ \E x \in TransferAmounts :
          \/ p = 1 /\ Invoke(p, Req(TransferType, WalletA, WalletB, x))
          \/ p = 2 /\ Invoke(p, Req(TransferType, WalletB, WalletA, x))

NextT == \E p \in Procs : RequestT(p) \/ Run(p) \/ DeadlockAbort(p)

SpecT == InitT /\ [][NextT]_vars

----------------------------------------------------------------------------
\* Measures of the committed store

RECURSIVE Net(_, _)
\* Credits minus debits of the entries of sequence es posted against wallet uid.
Net(es, uid) ==
    IF es = << >> THEN 0
    ELSE LET e == Head(es) IN
         (IF e.subject_wallet_id # uid THEN 0
          ELSE IF e.operation_type = Credit THEN e.amount ELSE 0 - e.amount)
         + Net(Tail(es), uid)

\* The entries committed since the seed.
Posted == SubSeq(log, Len(SeedLog) + 1, Len(log))

Done(p) == pc[p] = "done"
Succeeded(p) == Done(p) /\ res[p].err = OK
Failed(p) == Done(p) /\ res[p].err # OK

----------------------------------------------------------------------------
\* C1: in every committed state every wallet, user or provider, has a
\* balance of at least 0.
C1_BalanceNonNegative == \A i \in DOMAIN wallets : wallets[i].balance >= 0

\* A withdrawal of 3000 was refused on user-002 holding 2000.
C1_Witness ==
    /\ wallets[4].balance = 2000
    /\ \E p \in Procs :
          /\ Failed(p)
          /\ res[p].err = ErrInsufficientFunds
          /\ call[p] = Req(WithdrawType, "user-002", Nil, 3000)

\* The step appends one debit and one credit entry of the same amount and
\* type, with subject and object swapped, and nothing else.
PairAppended ==
    /\ Len(log') = Len(log) + 2
    /\ SubSeq(log', 1, Len(log)) = log
    /\ LET x == log'[Len(log) + 1]
           y == log'[Len(log) + 2] IN
         /\ {x.operation_type, y.operation_type} = {Debit, Credit}
         /\ x.operation_type # y.operation_type
         /\ x.amount = y.amount
         /\ x.transaction_type = y.transaction_type
         /\ x.subject_wallet_id = y.object_wallet_id
         /\ x.object_wallet_id = y.subject_wallet_id

\* C2: every committed Deposit, Withdraw or Transfer adds exactly two
\* entries to the log, one debit and one credit, of the same amount and
\* transaction type, with subject and object swapped; the log changes in no
\* other way.
C2_ExactlyTwoEntries ==
    [][ /\ log' # log => PairAppended
        /\ \A p \in Procs : (res'[p].err = OK /\ res[p].err # OK) => PairAppended ]_vars

\* An operation has committed its pair.
C2_Witness ==
    /\ Len(log) = Len(SeedLog) + 2
    /\ \E p \in Procs : Succeeded(p)

\* C3 as stated: every wallet's balance equals credits minus debits of all
\* the entries of the log posted against it, seeded ones included.
C3_BalanceIsLogNet ==
    \A i \in DOMAIN wallets : wallets[i].balance = Net(log, wallets[i].user_id)

\* C3 as amended: for every wallet, the balance and the net of the whole
\* log differ by what they differ by in the seed; the balance moves exactly
\* with the entries posted against the wallet.
C3_BalanceTracksLog ==
    \A i \in DOMAIN wallets :
        wallets[i].balance - Net(log, wallets[i].user_id)
            = SeedWallets[i].balance - Net(SeedLog, SeedWallets[i].user_id)

\* A deposit and a withdrawal have committed: the balances of both
\* providers differ from the seed's and the log has four new entries.
C3_Witness ==
    /\ wallets[1].balance # SeedWallets[1].balance
    /\ wallets[2].balance # SeedWallets[2].balance
    /\ Len(log) = Len(SeedLog) + 4

\* C4: a Deposit, Withdraw or Transfer that returns a failure has changed
\* neither the committed log nor any committed balance in any of its steps,
\* and returns no entry.
C4_FailureChangesNothing ==
    \A p \in Procs : Failed(p) => (~dirty[p] /\ res[p].txn = NoTxn)

\* One call failed at its commit, after both inserts and both balance
\* updates; another was refused under the lock after its inserts.
C4_Witness ==
    /\ \E p \in Procs : Failed(p) /\ last[p] = "commit"
    /\ \E p \in Procs : Failed(p) /\ last[p] = "update1" /\ res[p].err = ErrInsufficientFunds

\* The wallets' committed balances by user id.
Balance(uid) == FindByUserID(uid).wallet.balance

Min(a, b) == IF a < b THEN a ELSE b

\* The goroutines that have made their call.
Started == {p \in Procs : pc[p] # "idle"}

\* C5: N concurrent Withdraw calls of one amount a on one wallet of balance
\* B: once all have returned, exactly min(N, B div a) have committed, the
\* others have failed with ErrInsufficientFunds, and the balance is
\* B - a * min(N, B div a); the balance is negative at no point.
C5_NoLostUpdate ==
    /\ \A i \in DOMAIN wallets : wallets[i].balance >= 0
    /\ (Started # {} /\ \A p \in Started : Done(p)) =>
          LET c == call[CHOOSE p \in Started : TRUE]
              w == FindByUserID(c.a).wallet.id
              k == Min(Cardinality(Started), SeedWallets[w].balance \div c.amount) IN
            /\ Cardinality({p \in Started : Succeeded(p)}) = k
            /\ \A p \in Started : ~Succeeded(p) => res[p].err = ErrInsufficientFunds
            /\ wallets[w].balance = SeedWallets[w].balance - c.amount * k

\* All goroutines have returned; some withdrawal committed, one was refused
\* by the balance check before the transaction and one by the check under
\* the row lock.
C5_Witness ==
    /\ \A p \in Procs : Done(p)
    /\ \E p \in Procs : Succeeded(p)
    /\ \E p \in Procs : res[p].err = ErrInsufficientFunds /\ last[p] = "find1"
    /\ \E p \in Procs : res[p].err = ErrInsufficientFunds /\ last[p] = "update1"

\* C6 (first half): two opposite transfers never reach a state in which
\* each holds the row lock the other is waiting for.
C6_NoCircularWait ==
    ~ \E p \in Procs, q \in Procs : p # q /\ WaitsFor(p, q) /\ WaitsFor(q, p)

\* The balance the scenario of SpecT starts a wallet with, and the number
\* of entries the two transfers have added.
StartBalance(uid) ==
    LET setup == SelectSeq(Posted, LAMBDA e : e.transaction_type = WithdrawType) IN
      SeedWallets[FindByUserID(uid).wallet.id].balance + Net(setup, uid)
TransferEntries ==
    Len(SelectSeq(Posted, LAMBDA e : e.transaction_type = TransferType))

\* C7: Transfer(A, B, 500) and Transfer(B, A, 500) run concurrently from
\* A = 1000, B = 1000 end with both committed, A = 1000, B = 1000 and four
\* new entries.
C7_BothTransfersCommit ==
    ( /\ StartBalance(WalletA) = 1000
      /\ StartBalance(WalletB) = 1000
      /\ call[1] = Req(TransferType, WalletA, WalletB, 500)
      /\ call[2] = Req(TransferType, WalletB, WalletA, 500)
      /\ Done(1) /\ Done(2) )
    => /\ Succeeded(1) /\ Succeeded(2)
       /\ Balance(WalletA) = 1000
       /\ Balance(WalletB) = 1000
       /\ TransferEntries = 4

\* C8: every operation takes its row locks in ascending wallet id order.
C8_AscendingLockOrder ==
    \A p \in Procs : \A j \in DOMAIN txRows[p], k \in DOMAIN txRows[p] :
        j < k => txRows[p][j].id < txRows[p][k].id

\* C9: Transfer with fromWalletId equal to toWalletId, the wallet existing
\* and holding the amount, returns a failure and changes neither the log
\* nor the balance.
C9_SelfTransferRejected ==
    \A p \in Procs :
        (Done(p) /\ call[p].op = TransferType /\ call[p].a = call[p].b /\ call[p].amount > 0
            /\ FindByUserID(call[p].a).err = OK)
        => (res[p].err # OK /\ ~dirty[p])

\* C10: a call with amount <= 0 returns the invalid-amount error without
\* having made any repository call, whatever wallets it names, and changes
\* nothing.
C10_InvalidAmountFirst ==
    \A p \in Procs :
        (Done(p) /\ call[p].amount <= 0) =>
            /\ res[p].err = ErrInvalidAmount
            /\ res[p].txn = NoTxn
            /\ last[p] = "none"
            /\ ~dirty[p]

\* A Withdraw of a negative amount naming a wallet and a provider that do
\* not exist has returned, while another goroutine's call is in progress.
C10_Witness ==
    /\ \E p \in Procs : Done(p) /\ call[p] = Req(WithdrawType, "user-404", "user-404", -3000)
    /\ \E p \in Procs : pc[p] \notin {"idle", "done"}

----------------------------------------------------------------------------
\* The general specification without storage errors: the same calls in any
\* order and interleaving, every repository call succeeding unless the
\* deadlock detector fails it.

NextN ==
    \E p \in Procs :
        \/ Request(p)
        \/ Run(p)
        \/ DeadlockAbort(p)

SpecN == Init /\ [][NextN]_vars

\* p's step returns ErrInsufficientFunds and no entry, and neither this
\* step nor an earlier one of the call changed the committed store.
Refused(p) ==
    /\ pc'[p] = "done"
    /\ res'[p] = [err |-> ErrInsufficientFunds, txn |-> NoTxn]
    /\ wallets' = wallets
    /\ log' = log
    /\ ~dirty'[p]

\* C11: a Withdraw or Transfer whose amount exceeds the balance of the
\* wallet to debit fails with ErrInsufficientFunds, adds no entry and
\* leaves every balance unchanged: both when the balance is below the
\* amount as the call's first lookup reads it, and when it is below the
\* amount as UpdateWalletBalance reads it under the row lock.
C11_InsufficientFundsRefused ==
    [][ \A p \in Procs :
          (call[p] # NoCall /\ call[p].op # DepositType) =>
            /\ ( /\ pc[p] = "find1" /\ pc'[p] # "find1"
                 /\ FindByUserID(call[p].a).err = OK
                 /\ Balance(call[p].a) < call[p].amount ) => Refused(p)
            /\ ( /\ pc[p] = "update1" /\ pc'[p] # "update1"
                 /\ wallets[w1[p].id].balance < call[p].amount ) => Refused(p) ]_vars

\* A transfer of 3000 from user-002 was refused under the lock: the wallet
\* held 5000 at the call's first lookup and 2000, after another call's
\* commit, at its locking read.
C11_Witness ==
    /\ Balance("user-002") = 2000
    /\ \E p \in Procs :
          /\ Failed(p) /\ res[p].err = ErrInsufficientFunds /\ last[p] = "update1"
          /\ call[p] = Req(TransferType, "user-002", "user-004", 3000)

----------------------------------------------------------------------------
\* Deposits and withdrawals over every kind of target and provider id: a
\* user wallet, a provider wallet, an id that names no wallet, and no
\* provider id at all; no storage errors.

LookupRequests ==
    { Req(DepositType, "user-002", Nil, 3000),
      Req(DepositType, "user-002", "user-404", 3000),
      Req(DepositType, "user-002", "user-001", 3000),
      Req(DepositType, "user-404", Nil, 3000),
      Req(DepositType, "user-404", "user-404", 3000),
      Req(DepositType, "deposit-provider-master", Nil, 3000),
      Req(WithdrawType, "user-002", Nil, 3000),
      Req(WithdrawType, "user-002", "user-404", 3000),
      Req(WithdrawType, "user-002", "user-001", 3000),
      Req(WithdrawType, "user-002", "user-404", 6000),
      Req(WithdrawType, "user-002", "deposit-provider-master", 3000),
      Req(WithdrawType, "user-404", Nil, 3000),
      Req(WithdrawType, "user-404", "user-404", 3000),
      Req(WithdrawType, "deposit-provider-master", "deposit-provider-master", 3000) }

RequestL(p) ==
    /\ calls < MaxCalls
    /\ FirstFree(p)
    /\ \E c \in LookupRequests : Invoke(p, c)

NextL == \E p \in Procs : RequestL(p) \/ Run(p) \/ DeadlockAbort(p)

SpecL == Init /\ [][NextL]_vars

\* p's step is the one in which its call returns success.
Returns(p) == res'[p].err = OK /\ res[p].err # OK

\* The step moves amount from wallet row d to wallet row c, changes no
\* other row, and appends the debit entry (subject d's owner) followed by
\* the credit entry (subject c's owner), both of type ttype.
Moves(d, c, amount, ttype) ==
    /\ wallets'[d].balance = wallets[d].balance - amount
    /\ wallets'[c].balance = wallets[c].balance + amount
    /\ \A i \in DOMAIN wallets : i \notin {d, c} => wallets'[i] = wallets[i]
    /\ log' = log \o
          << Txn(wallets[d].user_id, wallets[c].user_id, ttype, Debit, amount, Completed),
             Txn(wallets[c].user_id, wallets[d].user_id, ttype, Credit, amount, Completed) >>

\* C12: a successful Deposit(w, a, p) increases w's balance by exactly a,
\* decreases provider p's balance by exactly a, appends the debit entry
\* (subject p, object w, amount a, type deposit) and the credit entry
\* (subject w, object p), changes no other wallet, and returns the credit
\* entry.
C12_DepositEffect ==
    [][ \A p \in Procs :
          (Returns(p) /\ call[p].op = DepositType) =>
             LET w == FindByUserID(call[p].a).wallet
                 pw == FindProviderWallet(ProviderID(p)).wallet IN
               /\ Moves(pw.id, w.id, call[p].amount, DepositType)
               /\ res'[p].txn = Txn(w.user_id, pw.user_id, DepositType, Credit,
                                    call[p].amount, Completed) ]_vars

\* C13: a successful Withdraw(w, a, p) decreases w's balance by exactly a,
\* increases provider p's balance by exactly a, appends the debit entry
\* (subject w, object p) and the credit entry (subject p, object w) of type
\* withdraw, changes no other wallet, and returns the debit entry.
C13_WithdrawEffect ==
    [][ \A p \in Procs :
          (Returns(p) /\ call[p].op = WithdrawType) =>
             LET w == FindByUserID(call[p].a).wallet
                 pw == FindProviderWallet(ProviderID(p)).wallet IN
               /\ Moves(w.id, pw.id, call[p].amount, WithdrawType)
               /\ res'[p].txn = Txn(w.user_id, pw.user_id, WithdrawType, Debit,
                                    call[p].amount, Completed) ]_vars

\* C14: a successful Transfer(from, to, a) between two distinct wallets
\* decreases from's balance by exactly a, increases to's by exactly a,
\* appends the debit entry (subject from, object to) and the credit entry
\* (subject to, object from) of type transfer, leaves every other wallet,
\* both providers included, unchanged, and returns the debit entry.
C14_TransferEffect ==
    [][ \A p \in Procs :
          (Returns(p) /\ call[p].op = TransferType /\ call[p].a # call[p].b) =>
             LET from == FindByUserID(call[p].a).wallet
                 to == FindByUserID(call[p].b).wallet IN
               /\ Moves(from.id, to.id, call[p].amount, TransferType)
               /\ res'[p].txn = Txn(from.user_id, to.user_id, TransferType, Debit,
                                    call[p].amount, Completed) ]_vars

\* Transfer("user-002", "user-004", 3000) has returned its entry; the two
\* wallets hold 2000 and 3000 and both providers what they were seeded with.
C14_Witness ==
    /\ \E p \in Procs :
          /\ Succeeded(p)
          /\ call[p] = Req(TransferType, "user-002", "user-004", 3000)
          /\ res[p].txn.operation_type = Debit
    /\ Balance("user-002") = 2000
    /\ Balance("user-004") = 3000
    /\ wallets[1] = SeedWallets[1]
    /\ wallets[2] = SeedWallets[2]

RECURSIVE SumBalances(_, _)
\* The sum of the balances of the first n rows of ws.
SumBalances(ws, n) ==
    IF n = 0 THEN 0 ELSE ws[n].balance + SumBalances(ws, n - 1)

\* The sum of the balances of all wallets, user and provider.
TotalBalance(ws) == SumBalances(ws, Len(ws))

\* C15: the sum of the balances of all wallets, user and provider, is the
\* same in every committed state.
C15_TotalBalanceConstant == TotalBalance(wallets) = TotalBalance(SeedWallets)

\* Two operations have committed and moved money: user-002 and a provider
\* hold other balances than in the seed.
C15_Witness ==
    /\ Len(log) = Len(SeedLog) + 4
    /\ wallets[4].balance # SeedWallets[4].balance
    /\ wallets[1].balance # SeedWallets[1].balance \/ wallets[2].balance # SeedWallets[2].balance

\* No two open transactions hold the lock of the same row.
MutualExclusion ==
    \A p \in Procs, q \in Procs : p # q => Locked(p) \cap Locked(q) = {}

\* What a step may do to balances and locks: a committed balance changes
\* only in the commit of a transaction holding the row's lock; a
\* transaction writes its own version of a row only while no other
\* transaction holds the row's lock; and a lock once taken is given up only
\* when the operation returns, committed or rolled back.
WritesUnderLock ==
    /\ \A i \in DOMAIN wallets :
          wallets'[i].balance # wallets[i].balance =>
             \E p \in Procs : /\ i \in Locked(p)
                              /\ pc[p] = "commit"
                              /\ res'[p].err = OK
    /\ \A p \in Procs :
          /\ \A k \in DOMAIN txRows'[p] :
                (k \notin DOMAIN txRows[p] \/ txRows[p][k] # txRows'[p][k]) =>
                    /\ pc[p] \in {"update1", "update2"}
                    /\ CanLock(p, txRows'[p][k].id)
          /\ \A i \in Locked(p) :
                (\A k \in DOMAIN txRows'[p] : txRows'[p][k].id # i) => pc'[p] = "done"

\* C16: a wallet's balance is written only by an operation holding the
\* exclusive row lock on it, the lock is held from the read of the balance
\* until that operation's commit or rollback, and at no time do two
\* operations hold the lock on the same wallet.
C16_ExclusiveRowLock == []MutualExclusion /\ [][WritesUnderLock]_vars

\* One transaction has written its version of a row, which differs from
\* the committed one, and another is waiting in its locking read of that
\* row.
C16_Witness ==
    \E p \in Procs, q \in Procs :
        /\ WaitsFor(q, p)
        /\ RowBalance(p, Wanted(q)) # wallets[Wanted(q)].balance

\* C17: Withdraw and Transfer decide whether the wallet to debit holds the
\* amount only from the balance read under that wallet's row lock: every
\* ErrInsufficientFunds they return comes from UpdateWalletBalance's
\* locking read, none from a read made before the lock was taken.
C17_SufficiencyUnderLock ==
    \A p \in Procs :
        (Done(p) /\ call[p].op # DepositType /\ res[p].err = ErrInsufficientFunds)
            => last[p] = "update1"

\* Both balance changes of p's operation: amount off the debit wallet's
\* row and onto the credit wallet's, which may be one and the same row.
AppliesBoth(p) ==
    \A i \in DOMAIN wallets :
        wallets'[i] = [wallets[i] EXCEPT !.balance =
                          @ - (IF i = DebitWallet(p) THEN call[p].amount ELSE 0)
                            + (IF i = CreditWallet(p) THEN call[p].amount ELSE 0)]

\* C18: no committed state holds a partial result of an operation: a step
\* that changes the committed log or a committed balance is the commit of
\* one operation and makes both of its entries and both of its balance
\* changes visible together; every other step, a failing one included,
\* changes none of them.
C18_NoPartialResult ==
    [][ /\ (wallets' # wallets \/ log' # log) => \E p \in Procs : Returns(p)
        /\ \A p \in Procs : Returns(p) =>
              /\ log' = log \o << DebitTxn(p), CreditTxn(p) >>
              /\ AppliesBoth(p) ]_vars

\* One operation has committed while another, which has inserted both of
\* its entries and written both of its balances, has yet to commit: the
\* log shows the first one's pair only.
C18_Witness ==
    /\ Len(log) = Len(SeedLog) + 2
    /\ \E p \in Procs, q \in Procs :
          /\ Succeeded(p)
          /\ pc[q] = "commit"
          /\ Len(txLog[q]) = 2
          /\ Len(txRows[q]) = 2

----------------------------------------------------------------------------
\* Progress: calls of all three operations whose lock orders cross, on
\* user-001, user-002 and the deposit provider, with every goroutine
\* scheduled. A goroutine that can take its next step (its repository call
\* returns, its locking read finds the row free) eventually takes it, and
\* PostgreSQL's deadlock detector eventually fails a locking read that is
\* part of a cycle. No other storage error happens.

CrossingRequests ==
    { Req(DepositType, "user-002", Nil, 3000),
      Req(WithdrawType, "user-002", "deposit-provider-master", 3000),
      Req(TransferType, "user-002", "user-001", 3000),
      Req(TransferType, "user-001", "user-002", 3000),
      Req(WithdrawType, "user-001", "deposit-provider-master", 3000) }

RequestF(p) ==
    /\ calls < MaxCalls
    /\ FirstFree(p)
    /\ \E c \in CrossingRequests : Invoke(p, c)

NextF ==
    \E p \in Procs :
        \/ RequestF(p)
        \/ Run(p)
        \/ DeadlockAbort(p)

Fairness == \A p \in Procs : WF_vars(Run(p)) /\ WF_vars(DeadlockAbort(p))

FairSpec == Init /\ [][NextF]_vars /\ Fairness

\* p's call has been made and has not returned.
Running(p) == pc[p] \notin {"idle", "done"}

\* C19: every started Deposit, Withdraw or Transfer eventually returns,
\* committed or rolled back, whatever operations run concurrently with it
\* (any mix of the three, any wallets, any explicit provider ids); none
\* waits forever for a row lock.
C19_EveryCallReturns == \A p \in Procs : Running(p) ~> Done(p)

\* Two calls wait for each other's row lock: each holds the row it debited
\* and is blocked in the locking read of the row it is to credit.
C19_Witness ==
    \E p \in Procs, q \in Procs :
        /\ p # q
        /\ pc[p] = "update2" /\ pc[q] = "update2"
        /\ InDeadlock(p) /\ InDeadlock(q)

\* p's call has failed with err, returning no entry and having changed
\* neither the committed log nor a committed balance.
FailedWith(p, err) ==
    /\ res[p] = [err |-> err, txn |-> NoTxn]
    /\ ~dirty[p]

\* C20: a Deposit or Withdraw of a valid amount fails with ErrNotFound when
\* the target wallet does not exist; when it exists and the provider id
\* names no wallet, or a wallet whose account type is not provider, the
\* call fails with the provider-not-found error of its operation; in both
\* cases with no entry and no balance change.
C20_LookupErrors ==
    \A p \in Procs :
        (Done(p) /\ call[p].op \in {DepositType, WithdrawType} /\ ValidAmount(call[p].amount)) =>
            IF FindByUserID(call[p].a).err # OK
            THEN FailedWith(p, ErrNotFound)
            ELSE FindProviderWallet(ProviderID(p)).err # OK => FailedWith(p, ProviderError(p))

----------------------------------------------------------------------------
\* The provider wallet a Deposit or Withdraw request c names: the one of
\* its provider id, or, without a provider id, 'deposit-provider-master'
\* for a Deposit and 'withdraw-provider-master' for a Withdraw.
Counterparty(c) ==
    IF c.b # Nil THEN c.b
    ELSE IF c.op = DepositType THEN "deposit-provider-master"
         ELSE "withdraw-provider-master"

\* C21: when no provider id is passed, Deposit uses the wallet
\* 'deposit-provider-master' as counterparty and Withdraw uses
\* 'withdraw-provider-master'; when a provider id is passed, that provider
\* and no other is the counterparty: both entries of a committed call name
\* it against the target, its balance changes (unless it is the target
\* itself), and no wallet but the target and it changes.
C21_ProviderCounterparty ==
    [][ \A p \in Procs :
          (Returns(p) /\ call[p].op \in {DepositType, WithdrawType}) =>
             LET cp == Counterparty(call[p])
                 x == log'[Len(log) + 1]
                 y == log'[Len(log) + 2] IN
               /\ Len(log') = Len(log) + 2
               /\ {x.subject_wallet_id, x.object_wallet_id} = {call[p].a, cp}
               /\ {y.subject_wallet_id, y.object_wallet_id} = {call[p].a, cp}
               /\ \A i \in DOMAIN wallets :
                     /\ wallets'[i] # wallets[i] => wallets[i].user_id \in {call[p].a, cp}
                     /\ (wallets[i].user_id = cp /\ cp # call[p].a)
                            => wallets'[i].balance # wallets[i].balance ]_vars

\* A withdrawal from user-002 that names 'deposit-provider-master' has
\* committed: that provider holds 3000 more than seeded and
\* 'withdraw-provider-master' what it was seeded with.
C21_Witness ==
    /\ \E p \in Procs :
          /\ Succeeded(p)
          /\ call[p] = Req(WithdrawType, "user-002", "deposit-provider-master", 3000)
    /\ wallets[1].balance = SeedWallets[1].balance + 3000
    /\ wallets[2] = SeedWallets[2]

\* C22: a Deposit whose amount exceeds the balance the provider wallet has
\* when UpdateWalletBalance reads it under the row lock fails with
\* ErrInsufficientFunds, adds no entry and changes neither the provider's
\* nor the target wallet's balance.
C22_ProviderInsufficientFunds ==
    [][ \A p \in Procs :
          ( /\ call[p] # NoCall /\ call[p].op = DepositType
            /\ pc[p] = "update1" /\ pc'[p] # "update1"
            /\ Balance(Counterparty(call[p])) < call[p].amount ) => Refused(p) ]_vars

\* A deposit of 3000 to user-002 from 'withdraw-provider-master', which
\* holds nothing, was refused at its first balance update; both wallets
\* are as seeded.
C22_Witness ==
    /\ \E p \in Procs :
          /\ Failed(p) /\ res[p].err = ErrInsufficientFunds /\ last[p] = "update1"
          /\ call[p] = Req(DepositType, "user-002", "withdraw-provider-master", 3000)
    /\ wallets[2] = SeedWallets[2]
    /\ wallets[4] = SeedWallets[4]

----------------------------------------------------------------------------
\* GetWalletWithTransactions, and the specification of reads running
\* against transfers from user-002, to user-004 and to itself, while time
\* passes; one read request, no storage errors.

MaxClock == 1

\* Time passes.  Only inserts read the time, so the model lets it pass
\* only before an insert.
Tick ==
    /\ clock.now < MaxClock
    /\ \E p \in Procs : pc[p] \in {"insert1", "insert2"}
    /\ clock' = [clock EXCEPT !.now = @ + 1]
    /\ UNCHANGED <<wallets, log, pc, call, w1, w2, txLog, txRows, res, dirty, last,
                   calls, view, created, crud>>

\* A filter on both sides of the entry.
MatchesEitherSide(e, userID) == e.subject_wallet_id = userID \/ e.object_wallet_id = userID

\* The filter of GetWalletWithTransactions: subject_wallet_id = wallet.UserID.
Matches(e, userID) == e.subject_wallet_id = userID

RECURSIVE NewestFirst(_)
\* ORDER BY created_at desc on the committed rows S of the log: every order
\* of S in which no row comes before one created later; rows of the same
\* created_at come in any order.
NewestFirst(S) ==
    IF S = {} THEN { << >> }
    ELSE UNION { { <<i>> \o s : s \in NewestFirst(S \ {i}) } :
                 i \in {j \in S : \A k \in S : clock.log[j] >= clock.log[k]} }

\* FindAllTransactions(filters): what the query can return.
FindAllTransactions(userID) ==
    NewestFirst({i \in DOMAIN log : Matches(log[i], userID)})

\* The first repository call of GetWalletWithTransactions(userID):
\* FindByUserID, whose error is returned as it is.
GetWallet(userID) ==
    /\ view.pc = "idle"
    /\ LET r == FindByUserID(userID) IN
         view' = [pc |-> IF r.err = OK THEN "list" ELSE "done",
                  userID |-> userID, err |-> IF r.err = OK THEN Nil ELSE r.err,
                  wallet |-> r.wallet, txns |-> << >>]
    /\ UNCHANGED <<wallets, log, pc, call, w1, w2, txLog, txRows, res, dirty, last,
                   calls, clock, created, crud>>

\* Its second repository call, FindAllTransactions, and the return of the
\* wallet and the entries.
ListTransactions ==
    /\ view.pc = "list"
    /\ \E s \in FindAllTransactions(view.wallet.user_id) :
          view' = [view EXCEPT !.pc = "done", !.err = OK, !.txns = s]
    /\ UNCHANGED <<wallets, log, pc, call, w1, w2, txLog, txRows, res, dirty, last,
                   calls, clock, created, crud>>

HistoryRequests ==
    { Req(TransferType, "user-002", "user-004", 1000),
      Req(TransferType, "user-002", "user-002", 1000) }

Readers == {"user-002", "user-404"}

RequestH(p) ==
    /\ calls < MaxCalls
    /\ FirstFree(p)
    /\ \E c \in HistoryRequests : Invoke(p, c)

NextH ==
    \/ \E p \in Procs : RequestH(p) \/ Run(p)
    \/ Tick
    \/ \E userID \in Readers : GetWallet(userID)
    \/ ListTransactions

SpecH == Init /\ [][NextH]_vars

\* C23: GetWalletWithTransactions(w) on an existing wallet returns exactly
\* the committed entries whose subject wallet id is w, each once (none
\* whose subject is another wallet, even when w is their object), ordered
\* by created_at, newest first.
C23_HistoryOfSubject ==
    [][ (view.pc = "list" /\ view'.pc = "done") =>
          LET t == view'.txns IN
            /\ view'.err = OK
            /\ view'.wallet.user_id = view.userID
            /\ \A i \in DOMAIN log :
                  (log[i].subject_wallet_id = view.userID)
                      <=> (\E j \in DOMAIN t : t[j] = i)
            /\ \A j \in DOMAIN t, k \in DOMAIN t :
                  /\ j # k => t[j] # t[k]
                  /\ j < k => clock.log[t[j]] >= clock.log[t[k]] ]_vars

\* The history of user-002 was returned with five entries: the two seeded
\* ones and three that the engine added, two of them of the same
\* created_at and one created later, which comes first.
C23_Witness ==
    /\ view.pc = "done" /\ view.err = OK /\ view.userID = "user-002"
    /\ Len(view.txns) = 5
    /\ clock.log[view.txns[1]] > clock.log[view.txns[2]]
    /\ clock.log[view.txns[2]] = clock.log[view.txns[3]]

\* C24: GetWalletWithTransactions on a user id no wallet has fails with
\* ErrNotFound and returns neither wallet nor entries; and no step of a
\* lookup, whether it succeeds or fails, changes a wallet, a balance or an
\* entry of the log.
C24_LookupReadOnly ==
    [][ view' # view =>
          /\ wallets' = wallets
          /\ log' = log
          /\ clock' = clock
          /\ (view.pc = "idle" /\ \A i \in DOMAIN wallets : wallets[i].user_id # view'.userID)
                => view' = [pc |-> "done", userID |-> view'.userID, err |-> ErrNotFound,
                            wallet |-> NoWallet, txns |-> << >>] ]_vars

\* The lookup of user-404 has failed with ErrNotFound after the engine had
\* committed an operation.
C24_Witness ==
    /\ view.pc = "done" /\ view.userID = "user-404" /\ view.err = ErrNotFound
    /\ Len(log) > Len(SeedLog)

\* C25: the log is append-only: an entry once committed stays in the log,
\* in its place, with all its fields and its created_at unchanged, in
\* every later state; no step of the engine updates or removes an entry.
C25_LogAppendOnly ==
    [][ /\ Len(log') >= Len(log)
        /\ SubSeq(log', 1, Len(log)) = log
        /\ SubSeq(clock'.log, 1, Len(log)) = clock.log ]_vars

\* One operation has committed its two entries behind the seeded ones and
\* another, which had inserted its entries, has been rolled back.
C25_Witness ==
    /\ Len(log) = Len(SeedLog) + 2
    /\ SubSeq(log, 1, Len(SeedLog)) = SeedLog
    /\ \E p \in Procs : Failed(p) /\ last[p] \in {"update1", "update2", "commit"}

\* Every entry the engine has added is completed and of a positive amount.
PostedCompleted ==
    \A i \in DOMAIN Posted : Posted[i].status = Completed /\ Posted[i].amount > 0

\* A step in which a call returns a failure adds no entry.
FailureAddsNothing ==
    \A p \in Procs : (res'[p] # res[p] /\ res'[p].err \notin {OK, Nil}) => log' = log

\* C26: every entry the engine adds to the log has status completed and
\* amount > 0; the engine never adds a pending, failed or cancelled entry,
\* and a failed operation is represented by no entry at all.
C26_OnlyCompletedEntries == []PostedCompleted /\ [][FailureAddsNothing]_vars

\* The engine has added a pair of entries and another call has failed
\* after inserting its own; the seed's pending entries are still the only
\* pending ones.
C26_Witness ==
    /\ Len(Posted) = 2
    /\ \E p \in Procs : Failed(p) /\ last[p] \in {"insert2", "update1", "update2", "commit"}
    /\ Cardinality({i \in DOMAIN log : log[i].status = Pending}) = 2

----------------------------------------------------------------------------
\* The same Deposit call, Deposit("user-002", 3000, nil), made again and
\* again, one after another or concurrently; no storage errors.

SameDeposit == Req(DepositType, "user-002", Nil, 3000)

RequestD(p) ==
    /\ calls < MaxCalls
    /\ FirstFree(p)
    /\ Invoke(p, SameDeposit)

NextD == \E p \in Procs : RequestD(p) \/ Run(p)

SpecD == Init /\ [][NextD]_vars

\* C27: Deposit is not idempotent: once n Deposit calls of identical
\* arguments have been made and all have returned, all have succeeded, the
\* log has 2 * n new entries and the target's balance is up by n times the
\* amount; no call is taken for a duplicate of an earlier one.
C27_DepositNotIdempotent ==
    (\A p \in Procs : ~Running(p)) =>
        /\ \A p \in Procs : Done(p) => res[p].err = OK
        /\ Len(Posted) = 2 * calls
        /\ Balance("user-002") = SeedWallets[4].balance + calls * SameDeposit.amount
        /\ Balance(DefaultDepositProvider)
              = SeedWallets[1].balance - calls * SameDeposit.amount

\* Two identical deposits have returned: four new entries, the second pair
\* equal to the first, and user-002 up by 6000.
C27_Witness ==
    /\ calls = 2
    /\ \A p \in Procs : ~Running(p)
    /\ Len(Posted) = 4
    /\ Posted[1] = Posted[3] /\ Posted[2] = Posted[4]
    /\ Balance("user-002") = SeedWallets[4].balance + 6000

----------------------------------------------------------------------------
\* Operations side by side: every goroutine makes at most one call, some
\* on wallets no other call touches, some on shared ones; no storage
\* errors.

ParallelRequests ==
    { Req(TransferType, "user-001", "user-003", 1000),
      Req(TransferType, "user-002", "user-004", 1000),
      Req(DepositType, "user-001", Nil, 1000),
      Req(WithdrawType, "user-004", Nil, 1000),
      Req(WithdrawType, "user-002", Nil, 6000) }

RequestP(p) ==
    /\ calls < MaxCalls
    /\ pc[p] = "idle"
    /\ \A q \in Procs : q < p => pc[q] # "idle"
    /\ \E c \in ParallelRequests : Invoke(p, c)

NextP == \E p \in Procs : RequestP(p) \/ Run(p)

SpecP == Init /\ [][NextP]_vars

\* The wallets a request touches: the one it debits and the one it credits.
DebitSide(c) == IF c.op = DepositType THEN Counterparty(c) ELSE c.a
CreditSide(c) ==
    IF c.op = DepositType THEN c.a
    ELSE IF c.op = WithdrawType THEN Counterparty(c) ELSE c.b
Touched(c) == {DebitSide(c), CreditSide(c)}

\* Every call made so far other than p's touches none of the wallets p's
\* call touches.
Undisturbed(p) ==
    \A q \in Procs \ {p} : pc[q] # "idle" => Touched(call[q]) \cap Touched(call[p]) = {}

\* What request c does when it runs alone on the seeded store: it commits
\* when the wallet it debits holds the amount, and is refused otherwise.
AloneCommits(c) == SeedWallets[FindByUserID(DebitSide(c)).wallet.id].balance >= c.amount
AloneBalance(c, userID) ==
    SeedWallets[FindByUserID(userID).wallet.id].balance
        + (IF AloneCommits(c) /\ userID = CreditSide(c) THEN c.amount ELSE 0)
        - (IF AloneCommits(c) /\ userID = DebitSide(c) THEN c.amount ELSE 0)

\* C28: two concurrent operations whose sets of touched wallets are
\* disjoint never wait for each other: a locking read of an operation that
\* shares no wallet with any other call returns at once, and the outcome
\* of such an operation (its result and the balances of its two wallets)
\* is what it is when the operation runs alone.
C28_DisjointRunInParallel ==
    \A p \in Procs :
        (pc[p] # "idle" /\ Undisturbed(p)) =>
            /\ \A q \in Procs : ~WaitsFor(p, q) /\ ~WaitsFor(q, p)
            /\ pc[p] \in {"update1", "update2"} => CanLock(p, Wanted(p))
            /\ Done(p) =>
                  /\ res[p].err = IF AloneCommits(call[p]) THEN OK ELSE ErrInsufficientFunds
                  /\ \A userID \in Touched(call[p]) :
                        Balance(userID) = AloneBalance(call[p], userID)

\* Transfer(user-001, user-003) holds the lock of one of its rows while
\* Transfer(user-002, user-004), which shares no wallet with it, is in its
\* second locking read.
C28_Witness ==
    \E p \in Procs, q \in Procs :
        /\ call[p] = Req(TransferType, "user-001", "user-003", 1000)
        /\ call[q] = Req(TransferType, "user-002", "user-004", 1000)
        /\ Locked(p) # {} /\ pc[p] # "done"
        /\ pc[q] = "update2"

----------------------------------------------------------------------------
\* Operations on wallets of every status: user-002, user-004 and
\* withdraw-provider-master start active, inactive or suspended,
\* user-inactive is inactive as seeded;
\* every goroutine makes at most one call; no storage errors.

Statuses == {"active", "inactive", "suspended"}

InitS ==
    /\ \E s2 \in Statuses, s4 \in Statuses, sp \in Statuses :
          wallets = [SeedWallets EXCEPT ![4].status = s2, ![6].status = s4,
                                        ![2].status = sp]
    /\ log = SeedLog
    /\ Idle

StatusRequests ==
    { Req(TransferType, "user-002", "user-004", 1000),
      Req(WithdrawType, "user-002", Nil, 6000),
      Req(DepositType, "user-004", Nil, 1000),
      Req(WithdrawType, "user-inactive", Nil, 500) }

RequestS(p) ==
    /\ calls < MaxCalls
    /\ pc[p] = "idle"
    /\ \A q \in Procs : q < p => pc[q] # "idle"
    /\ \E c \in StatusRequests : Invoke(p, c)

NextS == \E p \in Procs : RequestS(p) \/ Run(p)

SpecS == InitS /\ [][NextS]_vars

\* No step changes the id, owner, account type or status of a wallet, or
\* adds or removes a wallet.
KeepsWalletIdentity ==
    /\ DOMAIN wallets' = DOMAIN wallets
    /\ \A i \in DOMAIN wallets :
          [wallets'[i] EXCEPT !.balance = 0] = [wallets[i] EXCEPT !.balance = 0]

\* The outcome of p's call is the one the seeded balances give, whatever
\* the status of the wallets: refused when the wallet to debit holds less
\* than the amount, committed otherwise, with the amount moved.
OutcomeByBalance(p) ==
    /\ Succeeded(p) <=> AloneCommits(call[p])
    /\ ~Succeeded(p) => res[p] = [err |-> ErrInsufficientFunds, txn |-> NoTxn]
    /\ Balance(DebitSide(call[p])) = AloneBalance(call[p], DebitSide(call[p]))
    /\ Balance(CreditSide(call[p])) = AloneBalance(call[p], CreditSide(call[p]))

\* C29: Deposit, Withdraw and Transfer neither depend on wallet status nor
\* change it: an operation on an inactive or suspended wallet has the
\* outcome it has on an active wallet of the same balance, and no engine
\* operation changes a wallet's status, account type or owner id.
C29_StatusIgnored ==
    /\ [][KeepsWalletIdentity]_vars
    /\ [](\A p \in Procs : (Done(p) /\ Undisturbed(p)) => OutcomeByBalance(p))

\* A transfer from suspended user-002 to inactive user-004 and a
\* withdrawal from inactive user-inactive to the suspended provider have
\* committed, and the wallets have the status they had.
C29_Witness ==
    /\ wallets[4].status = "suspended" /\ wallets[6].status = "inactive"
    /\ wallets[2].status = "suspended" /\ wallets[2].balance = 500
    /\ wallets[7].status = "inactive" /\ wallets[7].balance = 500
    /\ wallets[4].balance = 4000 /\ wallets[6].balance = 1000
    /\ \E p \in Procs :
          Succeeded(p) /\ call[p] = Req(TransferType, "user-002", "user-004", 1000)

----------------------------------------------------------------------------
\* Wallet creation: the Create request next to deposits and withdrawals.

\* NewWallet(userID, acntType): balance 0, status active; the id is given
\* by the insert.
NewWallet(userID, acntType) == WalletRow(0, userID, acntType, 0, "active")

\* An insert that replaces the row of the same user_id.
CreateReplacing(userID, acntType) ==
    /\ IF \E i \in DOMAIN wallets : wallets[i].user_id = userID
       THEN LET i == CHOOSE j \in DOMAIN wallets : wallets[j].user_id = userID
                row == [NewWallet(userID, acntType) EXCEPT !.id = i]
            IN /\ wallets' = [wallets EXCEPT ![i] = row]
               /\ created' = [userID |-> userID, err |-> OK, wallet |-> row]
       ELSE LET row == [NewWallet(userID, acntType) EXCEPT !.id = Len(wallets) + 1]
            IN /\ wallets' = Append(wallets, row)
               /\ created' = [userID |-> userID, err |-> OK, wallet |-> row]
    /\ UNCHANGED <<log, pc, call, w1, w2, txLog, txRows, res, dirty, last, calls,
                   clock, view, crud>>

\* The Create request: NewWallet, then one INSERT into wallets.  The
\* unique index on user_id refuses a second row of the same user_id, and
\* the error is returned; otherwise the row is stored under the next id.
Create(userID, acntType) ==
    /\ IF \E i \in DOMAIN wallets : wallets[i].user_id = userID
       THEN /\ created' = [userID |-> userID, err |-> ErrDuplicateKey,
                           wallet |-> NewWallet(userID, acntType)]
            /\ UNCHANGED wallets
       ELSE LET row == [NewWallet(userID, acntType) EXCEPT !.id = Len(wallets) + 1]
            IN /\ wallets' = Append(wallets, row)
               /\ created' = [userID |-> userID, err |-> OK, wallet |-> row]
    /\ UNCHANGED <<log, pc, call, w1, w2, txLog, txRows, res, dirty, last, calls,
                   clock, view, crud>>

\* Create is asked for a user that has a wallet, for a provider that has
\* one, and for a user that has none.
CreateUsers == {"user-002", "deposit-provider-master", "user-005"}

AcntTypes == {User, Provider}

CreateRequests ==
    { Req(DepositType, "user-005", Nil, 1000),
      Req(WithdrawType, "user-002", Nil, 1000) }

RequestC(p) ==
    /\ calls < MaxCalls
    /\ FirstFree(p)
    /\ \E c \in CreateRequests : Invoke(p, c)

NextC ==
    \/ \E p \in Procs : RequestC(p) \/ Run(p)
    \/ \E userID \in CreateUsers, acntType \in AcntTypes : Create(userID, acntType)

SpecC == Init /\ [][NextC]_vars

\* No two wallets have the same user_id.
UniqueUserID ==
    \A i, j \in DOMAIN wallets : wallets[i].user_id = wallets[j].user_id => i = j

\* What a Create request does: refused when the user_id has a wallet, with
\* every wallet row, committed or held in a transaction, left as it is;
\* otherwise one row is added, with that user_id, balance 0 and status
\* active, and returned.  No other step adds a wallet.
CreatesOnce ==
    /\ created' # created =>
          IF \E i \in DOMAIN wallets : wallets[i].user_id = created'.userID
          THEN /\ created'.err \notin {OK, Nil}
               /\ wallets' = wallets
               /\ txRows' = txRows
          ELSE /\ created'.err = OK
               /\ wallets' = Append(wallets, created'.wallet)
               /\ created'.wallet.user_id = created'.userID
               /\ created'.wallet.balance = 0
               /\ created'.wallet.status = "active"
               /\ txRows' = txRows
    /\ created' = created => DOMAIN wallets' = DOMAIN wallets

\* C30: a newly created wallet has balance 0 and status active, and there
\* is at most one wallet per user_id: Create for a user_id that has a
\* wallet fails and leaves that wallet and its balance as they are.
C30_CreateOncePerUser == []UniqueUserID /\ [][CreatesOnce]_vars

\* user-005 was created, received a deposit of 1000, and a second Create
\* for user-005 has just been refused: the wallet still holds 1000.
C30_Witness ==
    /\ Len(wallets) = Len(SeedWallets) + 1
    /\ wallets[Len(wallets)].user_id = "user-005"
    /\ wallets[Len(wallets)].balance = 1000
    /\ created = [userID |-> "user-005", err |-> ErrDuplicateKey,
                  wallet |-> NewWallet("user-005", User)]

----------------------------------------------------------------------------
\* The deferred recover: a panic inside the atomic unit.

\* A panic raised by a repository call made after the defer statement.  The
\* deferred function recovers it and rolls the transaction back; the
\* function has unnamed results and the deferred function sets none, so
\* the call returns (nil, nil).
Panic(p) ==
    /\ pc[p] \in {"insert1", "insert2", "update1", "update2", "commit"}
    /\ Fail(p, OK)
    /\ Touch(p)
    /\ UNCHANGED <<call, calls>>

RecoverRequests ==
    { Req(DepositType, "user-002", Nil, 3000),
      Req(WithdrawType, "user-002", Nil, 1000),
      Req(TransferType, "user-002", "user-004", 1000) }

RequestR(p) ==
    /\ calls < MaxCalls
    /\ FirstFree(p)
    /\ \E c \in RecoverRequests : Invoke(p, c)

NextR ==
    \E p \in Procs :
        \/ RequestR(p)
        \/ Run(p)
        \/ Panic(p)

SpecR == Init /\ [][NextR]_vars

\* C31: whenever Deposit, Withdraw or Transfer returns without an error,
\* the returned entry is not null and both entries and both balance changes
\* of the operation are committed, on every exit path, the recovered panic
\* included.
C31_NoErrorMeansCommitted ==
    [][ \A p \in Procs :
          (res'[p] # res[p] /\ res'[p].err = OK) =>
              /\ res'[p].txn # NoTxn
              /\ log' = log \o << DebitTxn(p), CreditTxn(p) >>
              /\ AppliesBoth(p) ]_vars

----------------------------------------------------------------------------
\* Serial runs: what the operations do when they run one at a time.

\* Request c run alone on store S (committed wallets and log), for a
\* request of a valid amount whose two lookups succeed: refused when the
\* wallet to debit holds less than the amount, otherwise both entries are
\* added and the debit and then the credit are applied.
RunAlone(S, c) ==
    LET d == CHOOSE i \in DOMAIN S.wallets : S.wallets[i].user_id = DebitSide(c)
        k == CHOOSE i \in DOMAIN S.wallets : S.wallets[i].user_id = CreditSide(c)
        debited == [S.wallets EXCEPT ![d].balance = @ - c.amount]
    IN IF S.wallets[d].balance < c.amount
       THEN [wallets |-> S.wallets, log |-> S.log, err |-> ErrInsufficientFunds]
       ELSE [wallets |-> [debited EXCEPT ![k].balance = @ + c.amount],
             log |-> S.log \o
                 << Txn(DebitSide(c), CreditSide(c), c.op, Debit, c.amount, Completed),
                    Txn(CreditSide(c), DebitSide(c), c.op, Credit, c.amount, Completed) >>,
             err |-> OK]

RECURSIVE SerialRun(_, _, _)
\* The calls of the goroutines order[n], order[n+1], ... run one at a time
\* on store S: the final store and the error of each call.
SerialRun(S, order, n) ==
    IF n > Len(order) THEN [wallets |-> S.wallets, log |-> S.log, err |-> << >>]
    ELSE LET one == RunAlone(S, call[order[n]])
             rest == SerialRun([wallets |-> one.wallets, log |-> one.log], order, n + 1)
         IN [rest EXCEPT !.err = << one.err >> \o @]

\* The orders in which the goroutines of set P can run one at a time.
Orders(P) ==
    {s \in [1..Cardinality(P) -> P] : \A i, j \in DOMAIN s : s[i] = s[j] => i = j}

\* Concurrent calls only: a call is made while no call has returned, so no
\* call precedes another in real time and every serial order is allowed.
OverlapRequests ==
    { Req(TransferType, "user-001", "user-002", 1000),
      Req(TransferType, "user-002", "user-001", 1000),
      Req(WithdrawType, "user-002", Nil, 5000),
      Req(DepositType, "user-002", Nil, 1000) }

RequestO(p) ==
    /\ calls < MaxCalls
    /\ pc[p] = "idle"
    /\ \A q \in Procs : q < p => pc[q] # "idle"
    /\ \A q \in Procs : pc[q] # "done"
    /\ \E c \in OverlapRequests : Invoke(p, c)

NextO ==
    \E p \in Procs :
        \/ RequestO(p)
        \/ Run(p)
        \/ DeadlockAbort(p)

SpecO == Init /\ [][NextO]_vars

\* The committed store and the results are those of running the calls made
\* one at a time in order s from the seeded store.
SerialOutcome(s) ==
    LET R == SerialRun([wallets |-> SeedWallets, log |-> SeedLog], s, 1) IN
      /\ \A i \in DOMAIN s : res[s[i]].err = R.err[i]
      /\ wallets = R.wallets
      /\ Len(log) = Len(R.log)
      /\ {log[i] : i \in DOMAIN log} = {R.log[i] : i \in DOMAIN R.log}

\* C32: every concurrent execution of Deposit, Withdraw and Transfer is
\* equivalent to some serial execution of the same operations: once all
\* calls have returned, the calls that succeeded, the error of each one
\* that failed, the balances and the set of logged entries are those of
\* running the calls one at a time in some order consistent with their
\* real-time order.
C32_Serializable ==
    (Started # {} /\ \A p \in Started : Done(p)) =>
        \E s \in Orders(Started) : SerialOutcome(s)

----------------------------------------------------------------------------
\* C33: for every wallet and every committed state, the balance minus the
\* balance of the initial state equals the credit amounts minus the debit
\* amounts of the entries with that wallet as subject that the engine has
\* added since the initial state.
C33_BalanceChangeIsPostedNet ==
    \A i \in DOMAIN wallets :
        wallets[i].balance - SeedWallets[i].balance = Net(Posted, wallets[i].user_id)

\* A deposit of 3000 to user-002 and a transfer from user-002 to user-004
\* have committed: user-002 has a credit and a debit entry since the seed.
C33_Witness ==
    /\ Len(Posted) = 4
    /\ \E i, j \in DOMAIN Posted :
          /\ Posted[i].subject_wallet_id = "user-002" /\ Posted[i].operation_type = Credit
          /\ Posted[j].subject_wallet_id = "user-002" /\ Posted[j].operation_type = Debit
    /\ wallets[4].balance # SeedWallets[4].balance

----------------------------------------------------------------------------
RECURSIVE NetOfRows(_, _)
\* Credits minus debits of the log rows listed in rows (row numbers of the
\* log) that the engine posted since the seed, against wallet uid.
NetOfRows(rows, uid) ==
    IF rows = << >> THEN 0
    ELSE (IF Head(rows) > Len(SeedLog) THEN Net(<< log[Head(rows)] >>, uid) ELSE 0)
         + NetOfRows(Tail(rows), uid)

\* C34: the wallet and the entry list returned by one
\* GetWalletWithTransactions call are a consistent snapshot: the returned
\* balance minus the initial balance equals the net, credits minus debits,
\* of the returned entries the engine posted, also when operations on the
\* wallet commit while the call is running.
C34_ConsistentSnapshot ==
    (view.pc = "done" /\ view.err = OK) =>
        view.wallet.balance - SeedWallets[view.wallet.id].balance
            = NetOfRows(view.txns, view.wallet.user_id)

----------------------------------------------------------------------------
\* C35: every entry in the log has a subject wallet different from its
\* object wallet: no committed Deposit, Withdraw or Transfer records a
\* wallet as its own counterparty.
C35_NoSelfCounterparty ==
    \A i \in DOMAIN log : log[i].subject_wallet_id # log[i].object_wallet_id

----------------------------------------------------------------------------
\* Deposits and withdrawals with the default providers, no transfer, no
\* storage error and no deadlock detector.

DefaultProviderRequests ==
    { Req(DepositType, "user-001", Nil, 1000),
      Req(DepositType, "user-002", Nil, 1000),
      Req(WithdrawType, "user-001", Nil, 1000),
      Req(WithdrawType, "user-002", Nil, 6000),
      Req(WithdrawType, "user-002", Nil, 1000) }

RequestQ(p) ==
    /\ calls < MaxCalls
    /\ FirstFree(p)
    /\ \E c \in DefaultProviderRequests : Invoke(p, c)

NextQ == \E p \in Procs : RequestQ(p) \/ Run(p)

\* A goroutine that can take a step takes one; one blocked in a locking
\* read goes on when the row is released.
FairnessQ == \A p \in Procs : WF_vars(Run(p))

SpecQ == Init /\ [][NextQ]_vars /\ FairnessQ

\* C36: with the default providers and no Transfer running, concurrent
\* Deposit and Withdraw operations on any user wallets are free of
\* circular waits, and every one of them eventually commits or fails,
\* although Deposit locks the provider before the user wallet and Withdraw
\* the user wallet before the provider.
C36_NoCircularWait ==
    /\ [](\A p \in Procs : ~InDeadlock(p))
    /\ \A p \in Procs : Running(p) ~> Done(p)

\* A Deposit holds the deposit provider's row and waits for the row of
\* the user wallet, which a Withdraw has locked before locking its own
\* provider.
C36_Witness ==
    \E p \in Procs, q \in Procs :
        /\ call[p].op = DepositType /\ call[q].op = WithdrawType
        /\ call[p].a = call[q].a
        /\ pc[p] = "update2" /\ pc[q] = "update2"
        /\ WaitsFor(p, q)
        /\ Locked(p) # {}

----------------------------------------------------------------------------
\* The wallets an entry names.
WalletsOf(e) == {e.subject_wallet_id, e.object_wallet_id}

\* C37: for two committed operations that debit or credit the same wallet,
\* the order of their entries in the log by creation time, which is the
\* order GetWalletWithTransactions reports, is the order in which their
\* balance updates were applied to that wallet under the row lock.  The
\* row locks are held until commit, so the updates of a wallet are applied
\* in commit order, the order of the rows of variable log.
C37_LogOrderIsUpdateOrder ==
    \A i, j \in DOMAIN log :
        (Len(SeedLog) < i /\ i < j /\ WalletsOf(log[i]) \cap WalletsOf(log[j]) # {}) =>
            clock.log[i] <= clock.log[j]

----------------------------------------------------------------------------
\* Withdrawals and transfers that lack funds, a counterparty, or both, next
\* to a withdrawal that commits and lowers the balance; no storage errors.

ErrorOrderRequests ==
    { Req(TransferType, "user-002", "user-404", 5000),
      Req(TransferType, "user-002", "user-404", 6000),
      Req(TransferType, "user-404", "user-002", 1000),
      Req(TransferType, "user-404", "user-404", 1000),
      Req(WithdrawType, "user-002", "user-404", 5000),
      Req(WithdrawType, "user-002", "user-404", 6000),
      Req(WithdrawType, "user-404", "user-404", 1000),
      Req(WithdrawType, "user-002", Nil, 1000) }

RequestE(p) ==
    /\ calls < MaxCalls
    /\ FirstFree(p)
    /\ \E c \in ErrorOrderRequests : Invoke(p, c)

NextE == \E p \in Procs : RequestE(p) \/ Run(p)

SpecE == Init /\ [][NextE]_vars

\* C38: the insufficient-funds check precedes the counterparty lookup.  At
\* the first lookup of a Withdraw or Transfer, a missing wallet or sender
\* gives ErrNotFound; otherwise a balance below the amount gives
\* ErrInsufficientFunds there and then, whether or not the receiver or the
\* provider exists; only a call with enough funds goes on to the lookup
\* of its counterparty.
C38_FundsCheckBeforeCounterparty ==
    [][ \A p \in Procs :
          (pc[p] = "find1" /\ pc'[p] # "find1" /\ call[p].op # DepositType) =>
              IF FindByUserID(call[p].a).err # OK
              THEN /\ pc'[p] = "done"
                   /\ res'[p] = [err |-> ErrNotFound, txn |-> NoTxn]
              ELSE IF Balance(call[p].a) < call[p].amount
                   THEN Refused(p)
                   ELSE pc'[p] = "find2" /\ res'[p] = res[p] ]_vars

\* After a withdrawal of 1000 left user-002 with 4000, a transfer of 5000
\* from user-002 to the missing user-404 was refused for lack of funds at
\* its first lookup.
C38_Witness ==
    /\ wallets[4].balance = 4000
    /\ \E p \in Procs :
          /\ Done(p)
          /\ call[p] = Req(TransferType, "user-002", "user-404", 5000)
          /\ res[p] = [err |-> ErrInsufficientFunds, txn |-> NoTxn]
          /\ last[p] = "find1"

----------------------------------------------------------------------------
\* The HTTP handlers: what the request layer answers.

ErrSameWallet == "Cannot transfer to the same wallet"

\* The status of the Deposit handler's response: it has no case for
\* ErrInsufficientFunds.
StatusOfDeposit(err) ==
    IF err = OK THEN 201
    ELSE IF err = ErrNotFound THEN 404
    ELSE 500

\* The status of the Transfer handler's response to a bound request:
\* 400 for equal ids, else 201, 404, 422 or 500 by the engine's result.
StatusOf(err) ==
    IF err = ErrSameWallet THEN 400
    ELSE IF err = OK THEN 201
    ELSE IF err = ErrNotFound THEN 404
    ELSE IF err = ErrInsufficientFunds THEN 422
    ELSE 500

\* A Transfer handler that passes every bound request to the engine.
TransferHandlerUnchecked(p, c) == Invoke(p, c)

\* The Transfer handler on a bound request c: equal ids are answered at
\* once, without a call of the engine; otherwise service.Transfer is called.
TransferHandler(p, c) ==
    IF c.a = c.b
    THEN /\ pc[p] \in {"idle", "done"}
         /\ call' = [call EXCEPT ![p] = c]
         /\ calls' = calls + 1
         /\ dirty' = [dirty EXCEPT ![p] = FALSE]
         /\ last' = [last EXCEPT ![p] = "none"]
         /\ Fail(p, ErrSameWallet)
         /\ UNCHANGED <<clock, view, created, crud>>
    ELSE Invoke(p, c)

HandlerRequests ==
    { Req(TransferType, "user-002", "user-002", 1000),
      Req(TransferType, "user-404", "user-404", 1000),
      Req(TransferType, "user-002", "user-004", 1000),
      Req(TransferType, "user-002", "user-004", 6000),
      Req(TransferType, "user-404", "user-002", 1000),
      Req(TransferType, "user-002", "user-404", 1000) }

RequestX(p) ==
    /\ calls < MaxCalls
    /\ FirstFree(p)
    /\ \E c \in HandlerRequests : TransferHandler(p, c)

NextX == \E p \in Procs : RequestX(p) \/ Run(p)

SpecX == Init /\ [][NextX]_vars

\* C39: the HTTP Transfer handler answers a request whose wallet_id equals
\* receiver_id with 400 before calling the engine, so that no entry is
\* added and no balance changed by it; the engine's ErrNotFound is
\* answered with 404 and ErrInsufficientFunds with 422, with no state
\* change.
C39_HandlerResponses ==
    /\ \A i \in DOMAIN Posted : Posted[i].subject_wallet_id # Posted[i].object_wallet_id
    /\ \A p \in Procs : Done(p) =>
          IF call[p].a = call[p].b
          THEN StatusOf(res[p].err) = 400 /\ last[p] = "none" /\ ~dirty[p]
          ELSE /\ (FindByUserID(call[p].a).err # OK \/ FindByUserID(call[p].b).err # OK)
                      => StatusOf(res[p].err) \in {404, 422}
               /\ StatusOf(res[p].err) = 404 <=> FailedWith(p, ErrNotFound)
               /\ StatusOf(res[p].err) = 422 <=> FailedWith(p, ErrInsufficientFunds)
               /\ call[p].amount > SeedWallets[4].balance => StatusOf(res[p].err) = 422

\* A self-transfer was answered with 400 and a transfer of more than the
\* sender holds with 422; the store is as seeded.
C39_Witness ==
    /\ wallets = SeedWallets /\ log = SeedLog
    /\ \E p \in Procs, q \in Procs :
          /\ Done(p) /\ call[p] = Req(TransferType, "user-002", "user-002", 1000)
          /\ StatusOf(res[p].err) = 400
          /\ Done(q) /\ StatusOf(res[q].err) = 422

----------------------------------------------------------------------------
\* The CRUD wallet service: Create, Update (Find, then Save) and Delete on
\* records with a task, a priority and a status.

EngineVars ==
    <<wallets, log, pc, call, w1, w2, txLog, txRows, res, dirty, last, calls,
      clock, view, created>>

Tasks == {"", "call bank"}
Priorities == {0, 2}
RecordStatuses == {"", "done"}

\* repository Find(id): the row of that id, or ErrNotFound.
Find(id) ==
    IF crud.rows[id] = NoRecord THEN [err |-> ErrNotFound, wallet |-> NoRecord]
    ELSE [err |-> OK, wallet |-> crud.rows[id]]

\* service Create: one INSERT, the row gets the next id.  The status that
\* model.NewWallet sets is written "created"; nothing below depends on it.
CreateRecord(task, priority) ==
    /\ crud.n < MaxOps
    /\ crud.nextID <= MaxID
    /\ crud' = [crud EXCEPT !.rows[crud.nextID] = Record(task, priority, "created"),
                            !.nextID = @ + 1,
                            !.n = @ + 1,
                            !.res = [op |-> "create", id |-> crud.nextID, err |-> OK]]
    /\ UNCHANGED EngineVars

\* An Update that saves what it is given without reading the record first.
UpdateFindUnchecked(id, task, priority, status) ==
    /\ crud.n < MaxOps
    /\ crud.pc = "idle"
    /\ crud' = [crud EXCEPT !.n = @ + 1, !.pc = "save", !.id = id,
                            !.wallet = Record(task, priority, status),
                            !.res = [op |-> "update", id |-> id, err |-> Nil]]
    /\ UNCHANGED EngineVars

\* service Update up to its repository Update: Find(id), whose error is
\* returned, then the empty fields of the request are filled from the
\* record read.
UpdateFind(id, task, priority, status) ==
    /\ crud.n < MaxOps
    /\ crud.pc = "idle"
    /\ LET r == Find(id) IN
         IF r.err # OK
         THEN crud' = [crud EXCEPT !.n = @ + 1,
                                   !.res = [op |-> "update", id |-> id, err |-> r.err]]
         ELSE crud' = [crud EXCEPT
                          !.n = @ + 1, !.pc = "save", !.id = id,
                          !.wallet = Record(IF task = "" THEN r.wallet.task ELSE task,
                                            IF priority = 0 THEN r.wallet.priority ELSE priority,
                                            IF status = "" THEN r.wallet.status ELSE status),
                          !.res = [op |-> "update", id |-> id, err |-> Nil]]
    /\ UNCHANGED EngineVars

\* repository Update: db.Save, which writes the row of that id whether or
\* not it exists.
UpdateSave ==
    /\ crud.pc = "save"
    /\ crud' = [crud EXCEPT !.rows[crud.id] = crud.wallet,
                            !.pc = "idle", !.id = 0, !.wallet = NoRecord,
                            !.res = [op |-> "update", id |-> crud.id, err |-> OK]]
    /\ UNCHANGED EngineVars

\* service Delete: one DELETE by id; ErrNotFound when no row was affected.
DeleteRecord(id) ==
    /\ crud.n < MaxOps
    /\ IF crud.rows[id] = NoRecord
       THEN crud' = [crud EXCEPT !.n = @ + 1,
                                 !.res = [op |-> "delete", id |-> id, err |-> ErrNotFound]]
       ELSE crud' = [crud EXCEPT !.rows[id] = NoRecord,
                                 !.n = @ + 1,
                                 !.res = [op |-> "delete", id |-> id, err |-> OK]]
    /\ UNCHANGED EngineVars

NextU ==
    \/ \E task \in Tasks \ {""}, priority \in Priorities : CreateRecord(task, priority)
    \/ \E id \in 1..MaxID, task \in Tasks, priority \in Priorities, status \in RecordStatuses :
          UpdateFind(id, task, priority, status)
    \/ UpdateSave
    \/ \E id \in 1..MaxID : DeleteRecord(id)

SpecU == Init /\ [][NextU]_vars

====
